---- MODULE Spec2Model ----
(***************************************************************************)
(* Model of src/main.py: the ConversationManager (per-channel bounded      *)
(* conversation logs with age / count / token eviction), the token         *)
(* estimator with its character-count fallback, the platform-history       *)
(* fetch and the on_message event handler that assembles the context and   *)
(* appends the turn.  Four specifications share the variables: SpecStore   *)
(* (the manager's methods), SpecEstimator (the estimator on stored logs),  *)
(* SpecFetch (get_contextual_history on the channel's messages) and        *)
(* SpecBot (on_message coroutines interleaved at their awaits).            *)
(*                                                                         *)
(* Text is a tuple of one-character strings, so len(), strip() and         *)
(* startswith() are computed, not assumed.  Time is an integer number of   *)
(* clock ticks; datetime.now() reads the variable clock.                   *)
(***************************************************************************)
EXTENDS Integers, Sequences, FiniteSets, TLC

VARIABLES
    conversations,  \* self.conversations: defaultdict(list); DOMAIN = its keys
    max_age,        \* self.max_age, in ticks
    max_messages,   \* self.max_messages
    token_limit,    \* self.token_limit
    clock,          \* the wall clock read by datetime.now(timezone.utc)
    nextId,         \* history: identity of the next record object appended
    added,          \* history: per channel, identities appended since its last clear
    lossy,          \* history: per channel, age/token pass removed a record since then
    last,           \* history: the operation that just returned and what it observed
    pc,             \* per event: position of its on_message coroutine
    ctx,            \* per event: locals of on_message, and what it appended
    channel_history \* the messages posted in the target channel, newest first

vars == <<conversations, max_age, max_messages, token_limit, channel_history, clock, nextId,
          added, lossy, last, pc, ctx>>

storeVarsButLast == <<conversations, max_age, max_messages, token_limit, channel_history, clock, nextId,
                      added, lossy>>

botVars == <<pc, ctx>>

----------------------------------------------------------------------------
(* Bounds of the model *)

\* number of add_message calls explored
MaxAdds == 2
\* last clock value explored
MaxClock == 2
\* number of inbound gateway events explored in the bot specification
MaxEvents == 2
\* last clock value explored in the bot specification
MaxBotClock == 11
\* number of messages posted in the channel in the fetch specification
MaxPosts == 6

(* Program constants *)

\* self.token_limit = 7168
TOKEN_LIMIT == 7168
\* ConversationManager(max_age_minutes=10, ...)
MAX_AGE_MINUTES == 10
\* ConversationManager(..., max_messages=20)
MAX_MESSAGES == 20
\* get_contextual_history(message.channel, limit=5)
HISTORY_LIMIT == 5

\* configurations explored in the store specification
MaxAgeChoices == {0, 1}
MaxMessagesChoices == {0, 1, 2}

Channels == {1, 2}
\* Python None where a channel id is expected (ids are positive)
None == 0 - 1
\* the service call raised
Fail == 0 - 1
\* no service call was made
NoAnswer == 0 - 2

\* (role, content) arguments passed to add_message
Messages == { [role |-> "user",      content |-> <<"a", "b">>],
              [role |-> "assistant", content |-> <<"c", "d", "e">>],
              [role |-> "system",    content |-> <<"a", "b">>] }
\* what model.count_tokens(...).total_tokens may answer: an exception or a count
ServiceAnswers == {Fail, 1, TOKEN_LIMIT + 1}

Min(a, b) == IF a < b THEN a ELSE b
Max(a, b) == IF a > b THEN a ELSE b

----------------------------------------------------------------------------
(* Python list and defaultdict primitives *)

\* lst[start:] for an integer start (negative counts from the end; -0 is 0)
PySliceFrom(lst, start) ==
    LET n == Len(lst)
        s == IF start < 0 THEN Max(n + start, 0) ELSE Min(start, n)
    IN  SubSeq(lst, s + 1, n)

\* defaultdict(list).__getitem__: the value read
DefaultGet(conv, c) == IF c \in DOMAIN conv THEN conv[c] ELSE <<>>

\* dict.__setitem__
Put(conv, c, v) == [d \in (DOMAIN conv) \cup {c} |-> IF d = c THEN v ELSE conv[d]]

\* defaultdict(list).__getitem__: the mapping left behind (a missing key is inserted)
Touch(conv, c) == Put(conv, c, DefaultGet(conv, c))

RECURSIVE SumLen(_)
\* sum(len(content) for content in history_content)
SumLen(texts) == IF texts = <<>> THEN 0 ELSE Len(Head(texts)) + SumLen(Tail(texts))

ContentsOf(log) == [i \in 1..Len(log) |-> log[i].content]

----------------------------------------------------------------------------
(* ConversationManager *)

\* role_for_gemini = "model" if role == "assistant" else "user"
RoleForGemini(role) == IF role = "assistant" THEN "model" ELSE "user"

\* as CalculateTotalTokens, but the fallback counts the texts, not their characters
CalculateTotalTokensCountingTexts(log, answer) ==
    LET history_content == [i \in 1..Len(log) |-> log[i].content]
    IN  IF history_content = <<>> THEN [value |-> 0, calls |-> 0]
        ELSE IF answer = Fail
             THEN [value |-> Len(history_content), calls |-> 1]
             ELSE [value |-> answer, calls |-> 1]

\* _calculate_total_tokens on a log, given the service's answer to this call:
\* value returned and number of service calls made
CalculateTotalTokens(log, answer) ==
    LET history_content == ContentsOf(log)
    IN  IF history_content = <<>> THEN [value |-> 0, calls |-> 0]
        ELSE IF answer = Fail
             THEN [value |-> SumLen(history_content), calls |-> 1]
             ELSE [value |-> answer, calls |-> 1]

\* as AgeFilter, but a record one tick over max_age is kept
AgeFilterLate(log, current_time, maxAge) ==
    SelectSeq(log, LAMBDA msg : current_time - msg.timestamp <= maxAge + 1)

\* first pass of _cleanup_conversation: the list comprehension
AgeFilter(log, current_time, maxAge) ==
    SelectSeq(log, LAMBDA msg : current_time - msg.timestamp <= maxAge)

\* as CountCap, but the oldest max_messages records are kept
CountCapOldest(log, maxMessages) ==
    IF Len(log) > maxMessages THEN SubSeq(log, 1, maxMessages) ELSE log

\* second pass: if len(...) > self.max_messages: ... = ...[-self.max_messages:]
CountCap(log, maxMessages) ==
    IF Len(log) > maxMessages THEN PySliceFrom(log, 0 - maxMessages) ELSE log

\* as TokenTrim, but an `if` in place of the `while`: at most one record is removed
TokenTrimOnce(log, answers, limit, calls) ==
    LET a == IF answers = <<>> THEN Fail ELSE Head(answers)
        r == CalculateTotalTokens(log, a)
    IN  IF r.value > limit /\ log # <<>>
        THEN [log |-> Tail(log), est |-> r.value, calls |-> calls + r.calls, answer |-> a]
        ELSE [log |-> log, est |-> r.value, calls |-> calls + r.calls,
              answer |-> IF r.calls = 0 THEN NoAnswer ELSE a]

RECURSIVE TokenTrim(_, _, _, _)
\* third pass: the while loop; answers are the service's answers, one per call made
TokenTrim(log, answers, limit, calls) ==
    LET r == CalculateTotalTokens(log, IF answers = <<>> THEN Fail ELSE Head(answers))
    IN  IF r.value > limit /\ log # <<>>
        THEN TokenTrim(Tail(log), IF answers = <<>> THEN <<>> ELSE Tail(answers),
                       limit, calls + r.calls)
        ELSE [log |-> log, est |-> r.value, calls |-> calls + r.calls,
              answer |-> IF r.calls = 0 THEN NoAnswer
                         ELSE IF answers = <<>> THEN Fail ELSE Head(answers)]

\* _cleanup_conversation on one log
CleanupConversation(log, current_time, answers, maxAge, maxMessages, limit) ==
    LET aged   == AgeFilter(log, current_time, maxAge)
        capped == CountCap(aged, maxMessages)
        t      == TokenTrim(capped, answers, limit, 0)
    IN  [log |-> t.log, est |-> t.est, calls |-> t.calls, answer |-> t.answer,
         aged |-> aged # log, popped |-> Len(capped) - Len(t.log),
         lost |-> (aged # log) \/ (t.log # capped)]

\* the record appended by add_message (id is the object's identity)
NewRecord(role, content, now, id) ==
    [role |-> RoleForGemini(role), content |-> content, timestamp |-> now, id |-> id]

\* as AppendRecord, but the record is inserted at the front
PrependRecord(log, rec) == <<rec>> \o log

\* self.conversations[channel_id].append({...})
AppendRecord(log, rec) == Append(log, rec)

\* add_message on a mapping: the mapping and what the cleanup observed.
\* The record is stamped at `now`; the cleanup reads the clock at now + delta.
AddMessageTo(conv, c, role, content, now, delta, answers, id, maxAge, maxMessages, limit) ==
    LET rec == NewRecord(role, content, now, id)
        r   == CleanupConversation(AppendRecord(DefaultGet(conv, c), rec), now + delta,
                                   answers, maxAge, maxMessages, limit)
    IN  [conv |-> Put(conv, c, r.log), est |-> r.est, calls |-> r.calls,
         answer |-> r.answer, aged |-> r.aged, popped |-> r.popped, lost |-> r.lost]

\* as ClearConversationOf, but the named channel's log is left as it is
ClearNothing(conv, c) == IF c = None THEN << >> ELSE conv

\* as ClearConversationOf, but every log is dropped whatever the argument
ClearEverything(conv, c) == << >>

\* clear_conversation on a mapping
ClearConversationOf(conv, c) ==
    IF c = None THEN << >>
    ELSE IF c \in DOMAIN conv THEN [conv EXCEPT ![c] = <<>>]
    ELSE conv

\* get_formatted_history: the list returned
GetFormattedHistory(conv, c) ==
    LET log == DefaultGet(conv, c)
    IN  [i \in 1..Len(log) |-> [role |-> log[i].role, parts |-> <<log[i].content>>]]

RECURSIVE StoredRecords(_)
\* number of records a mapping holds
StoredRecords(conv) ==
    IF DOMAIN conv = {} THEN 0
    ELSE LET c == CHOOSE d \in DOMAIN conv : TRUE
         IN  Len(conv[c]) + StoredRecords([d \in (DOMAIN conv) \ {c} |-> conv[d]])

\* the log of a channel, an absent log read as empty
Log(c) == DefaultGet(conversations, c)

RECURSIVE TrimRuns(_, _, _)
\* the answer sequences a trim of `log` can consume: one answer per service call
TrimRuns(log, limit, answerSet) ==
    IF log = <<>> THEN { <<>> }
    ELSE UNION { IF CalculateTotalTokens(log, a).value > limit
                 THEN { <<a>> \o s : s \in TrimRuns(Tail(log), limit, answerSet) }
                 ELSE { <<a>> } : a \in answerSet }

\* the answer sequences the cleanup run by add_message(c, m.role, m.content) can consume
AddRuns(c, m, delta) ==
    LET log == AppendRecord(Log(c), NewRecord(m.role, m.content, clock, nextId))
    IN  TrimRuns(CountCap(AgeFilter(log, clock + delta, max_age), max_messages),
                 token_limit, ServiceAnswers)

----------------------------------------------------------------------------
(* Store specification: the ConversationManager driven through its methods *)

NoOp == [op |-> "none", ch |-> None, ret |-> None]

InitCommon ==
    /\ conversations = << >>
    /\ clock = 0
    /\ nextId = 1
    /\ added = [c \in Channels |-> << >>]
    /\ lossy = [c \in Channels |-> FALSE]
    /\ last = NoOp
    /\ channel_history = << >>

InitStore ==
    /\ InitCommon
    /\ max_age \in MaxAgeChoices
    /\ max_messages \in MaxMessagesChoices
    /\ token_limit = TOKEN_LIMIT
    /\ pc = << >>
    /\ ctx = << >>

\* conversation_manager.add_message(c, role, content)
AddMessage(c, role, content, delta, answers) ==
    /\ nextId <= MaxAdds
    /\ clock + delta <= MaxClock
    /\ LET r == AddMessageTo(conversations, c, role, content, clock, delta, answers,
                             nextId, max_age, max_messages, token_limit)
       IN  /\ conversations' = r.conv
           /\ lossy' = [lossy EXCEPT ![c] = @ \/ r.lost]
           /\ last' = [op |-> "add", ch |-> c,
                       ret |-> [est |-> r.est, answer |-> r.answer, aged |-> r.aged,
                                popped |-> r.popped, id |-> nextId, role |-> role,
                                content |-> content, answers |-> answers]]
    /\ clock' = clock + delta
    /\ added' = [added EXCEPT ![c] = Append(@, nextId)]
    /\ nextId' = nextId + 1
    /\ UNCHANGED <<max_age, max_messages, token_limit, channel_history, botVars>>

\* conversation_manager.clear_conversation(c), c = None for no argument
ClearConversation(c) ==
    /\ conversations' = ClearConversationOf(conversations, c)
    /\ lossy' = [d \in Channels |-> IF c = None \/ c = d THEN FALSE ELSE lossy[d]]
    /\ last' = [op |-> "clear", ch |-> c,
                ret |-> IF c = None THEN StoredRecords(conversations)
                        ELSE Len(DefaultGet(conversations, c))]
    /\ added' = [d \in Channels |-> IF c = None \/ c = d THEN << >> ELSE added[d]]
    /\ UNCHANGED <<max_age, max_messages, token_limit, channel_history, clock, nextId, botVars>>

\* conversation_manager.get_formatted_history(c)
GetHistory(c) ==
    /\ conversations' = Touch(conversations, c)
    /\ last' = [op |-> "get", ch |-> c, ret |-> GetFormattedHistory(conversations, c)]
    /\ UNCHANGED <<max_age, max_messages, token_limit, channel_history, clock, nextId, added, lossy, botVars>>

\* conversation_manager._calculate_total_tokens(c)
Estimate(c, answer) ==
    /\ LET r == CalculateTotalTokens(DefaultGet(conversations, c), answer)
       IN  last' = [op |-> "estimate", ch |-> c,
                    ret |-> [value |-> r.value, calls |-> r.calls,
                             answer |-> answer]]
    /\ conversations' = Touch(conversations, c)
    /\ UNCHANGED <<max_age, max_messages, token_limit, channel_history, clock, nextId, added, lossy, botVars>>

\* time passes
Tick ==
    /\ clock < MaxClock
    /\ clock' = clock + 1
    /\ last' = NoOp
    /\ UNCHANGED <<conversations, max_age, max_messages, token_limit, channel_history, nextId, added,
                   lossy, botVars>>

NextStore ==
    \/ \E c \in Channels, m \in Messages, delta \in 0..1 :
          \E answers \in AddRuns(c, m, delta) :
             AddMessage(c, m.role, m.content, delta, answers)
    \/ \E c \in Channels \cup {None} : ClearConversation(c)
    \/ \E c \in Channels : GetHistory(c)
    \/ Tick

SpecStore == InitStore /\ [][NextStore]_vars

(* Estimator specification: logs built by add_message, then estimated *)

NextEstimator ==
    \/ \E c \in Channels, m \in Messages :
          \E answers \in AddRuns(c, m, 0) :
             AddMessage(c, m.role, m.content, 0, answers)
    \/ \E c \in Channels, answer \in ServiceAnswers : Estimate(c, answer)

SpecEstimator == InitStore /\ [][NextEstimator]_vars

----------------------------------------------------------------------------
(* Text: str.strip, str.lower, str.startswith, str.split *)

\* the characters str.strip() and str.split() take for whitespace beyond the
\* ones with an escape: chr(11) \v, chr(28)..chr(31) (file, group, record and
\* unit separator), chr(133) next line, chr(160) no-break space and chr(5760)
\* ogham space mark, each written as the character itself
VT == ""
FS == ""
GS == ""
RS == ""
US == ""
NEL == ""
NBSP == " "
OghamSpace == " "

\* str.isspace of one character. Python also takes U+2000..U+200A, U+2028,
\* U+2029, U+202F, U+205F and U+3000, which a string literal of this language
\* cannot hold.
IsSpace(ch) == ch \in {" ", "\t", "\n", "\r", "\f", VT, FS, GS, RS, US, NEL, NBSP, OghamSpace}

RECURSIVE LStrip(_)
LStrip(t) == IF t # <<>> /\ IsSpace(Head(t)) THEN LStrip(Tail(t)) ELSE t

RECURSIVE RStrip(_)
RStrip(t) == IF t # <<>> /\ IsSpace(t[Len(t)]) THEN RStrip(SubSeq(t, 1, Len(t) - 1)) ELSE t

\* str.strip()
Strip(t) == RStrip(LStrip(t))

UpperLetters == <<"A", "B", "C", "D", "E", "F", "G", "H", "I", "J", "K", "L", "M",
                  "N", "O", "P", "Q", "R", "S", "T", "U", "V", "W", "X", "Y", "Z">>
LowerLetters == <<"a", "b", "c", "d", "e", "f", "g", "h", "i", "j", "k", "l", "m",
                  "n", "o", "p", "q", "r", "s", "t", "u", "v", "w", "x", "y", "z">>

\* ch.lower() == lc, for lc a character of ASCII. No character but a capital
\* of ASCII lowers to another character of ASCII, except the Kelvin sign U+212A
\* (to k), which a string literal of this language cannot hold.
LowerIs(ch, lc) ==
    IF \E i \in 1..Len(UpperLetters) : UpperLetters[i] = ch
    THEN \E i \in 1..Len(UpperLetters) : UpperLetters[i] = ch /\ LowerLetters[i] = lc
    ELSE ch = lc

\* user_input.split(maxsplit=1) has an element [1]: a second word follows
\* whitespace that follows a first word
HasQuery(t) ==
    \E i, k, j \in 1..Len(t) :
        i < k /\ k < j /\ ~IsSpace(t[i]) /\ IsSpace(t[k]) /\ ~IsSpace(t[j])

Reverse(seq) == [i \in 1..Len(seq) |-> seq[Len(seq) + 1 - i]]

ResetCommand  == <<"!", "r", "e", "s", "e", "t">>
SearchPrefix  == <<"!", "s", "e", "a", "r", "c", "h">>
ResearchPrefix == <<"!", "r", "e", "s", "e", "a", "r", "c", "h">>

\* t.lower().startswith(prefix), for a prefix of ASCII characters. str.lower()
\* gives one character for each character (two only for U+0130, which a string
\* literal of this language cannot hold), so the lowered text starts with the
\* prefix exactly when the first characters lower to the prefix's, one by one.
LowerStartsWith(t, prefix) ==
    Len(t) >= Len(prefix) /\ \A i \in 1..Len(prefix) : LowerIs(t[i], prefix[i])

\* user_input.lower().startswith("!search") or ...startswith("!research")
IsSearch(user_input) ==
    LowerStartsWith(user_input, SearchPrefix) \/ LowerStartsWith(user_input, ResearchPrefix)

----------------------------------------------------------------------------
(* The platform and the generation backend, as the handler sees them *)

\* TARGET_CHANNEL_ID
TargetChannel == 1

Events == 1..MaxEvents

\* inbound gateway messages: author "self" is client.user
InboundMessages ==
    { [author |-> "self",  channel |-> 1, text |-> <<"o", "k">>],
      [author |-> "alice", channel |-> 2, text |-> <<"h", "i">>],
      [author |-> "alice", channel |-> 1, text |-> <<VT, "\f", US>>],
      [author |-> "alice", channel |-> 1, text |-> ResetCommand],
      [author |-> "alice", channel |-> 1, text |-> <<"!", "S", "E", "a", "r", "C", "h", FS, "q">>],
      [author |-> "alice", channel |-> 1, text |-> <<NBSP, "h", "i", "\r", GS>>] }

\* message.author.bot of a message in the channel's history
AuthorIsBot(author) == author \in {"self", "otherbot"}

\* what channel.history(limit=5) may deliver, newest first
Deliveries ==
    { << [author |-> "self",     text |-> <<"o", "k">>],
         [author |-> "alice",    text |-> <<"h", "i">>],
         [author |-> "alice",    text |-> <<RS, "\f">>],
         [author |-> "otherbot", text |-> <<NEL, "y", "o", "\r", "\n">>] >> }

\* what response.text may be
ResponseTexts == { <<"o", "k", "\n">> }

\* as GetContextualHistory, but the list is returned in the order of delivery
GetContextualHistoryNewestFirst(delivery) ==
    LET kept == SelectSeq(delivery, LAMBDA message : Strip(message.text) # <<>>)
    IN  [i \in 1..Len(kept) |->
            [role  |-> IF AuthorIsBot(kept[i].author) THEN "model" ELSE "user",
             parts |-> <<Strip(kept[i].text)>>]]

\* get_contextual_history, given what channel.history delivered
GetContextualHistory(delivery) ==
    LET kept == SelectSeq(delivery, LAMBDA message : Strip(message.text) # <<>>)
        history == [i \in 1..Len(kept) |->
                      [role  |-> IF AuthorIsBot(kept[i].author) THEN "model" ELSE "user",
                       parts |-> <<Strip(kept[i].text)>>]]
    IN  Reverse(history)

\* as Assemble, but fetched entries already in the short-term history are dropped
AssembleDeduplicated(short_term_history, discord_history) ==
    short_term_history \o
    SelectSeq(discord_history,
              LAMBDA h : \A i \in 1..Len(short_term_history) : short_term_history[i] # h)

\* full_history = short_term_history + discord_history
Assemble(short_term_history, discord_history) == short_term_history \o discord_history

IdsOf(log) == { log[i].id : i \in 1..Len(log) }

\* as OnFetched, but the user turn is added to the store before the generation call
OnFetchedUserFirst(conv, c, user_input, delivery, id) ==
    LET a == AddMessageTo(conv, c, "user", user_input, clock, 0,
                          [i \in 1..(Len(DefaultGet(conv, c)) + 1) |-> 1], id,
                          max_age, max_messages, token_limit)
        discord_history    == GetContextualHistory(delivery)
        short_term_history == GetFormattedHistory(a.conv, c)
    IN  [conv |-> a.conv, recs |-> << NewRecord("user", user_input, clock, id) >>,
         discord |-> discord_history, short |-> short_term_history,
         full |-> Assemble(short_term_history, discord_history),
         snap |-> IdsOf(DefaultGet(a.conv, c))]

\* on_message from the return of the history fetch to the generation call:
\* the store left behind, the records appended, the locals
OnFetched(conv, c, user_input, delivery, id) ==
    LET discord_history    == GetContextualHistory(delivery)
        short_term_history == GetFormattedHistory(conv, c)
    IN  [conv |-> Touch(conv, c), recs |-> << >>,
         discord |-> discord_history, short |-> short_term_history,
         full |-> Assemble(short_term_history, discord_history),
         snap |-> IdsOf(DefaultGet(conv, c))]

\* as OnGenerated, but only the user record is added
OnGeneratedUserOnly(conv, c, user_input, response_text, d, answers1, answers2, id) ==
    LET a1 == AddMessageTo(conv, c, "user", user_input, clock, d[1], answers1, id,
                           max_age, max_messages, token_limit)
    IN  [conv |-> a1.conv, lost |-> a1.lost,
         recs |-> << NewRecord("user", user_input, clock, id) >>]

\* the ticks between the four datetime.now() reads of a turn: from the user
\* record's stamp to the first cleanup's read, from there to the assistant
\* record's stamp, from there to the second cleanup's read
ReadDelays == { <<0, 0, 0>>, <<1, 0, 0>>, <<0, 1, 0>>, <<0, 0, 1>> }

\* on_message on a reply from the backend: the two add_message calls.
\* The user record is stamped at the clock and its cleanup reads the clock d[1]
\* ticks later; the assistant record is stamped d[2] ticks after that and its
\* cleanup reads the clock d[3] ticks after the stamp.
OnGenerated(conv, c, user_input, response_text, d, answers1, answers2, id) ==
    LET a1 == AddMessageTo(conv, c, "user", user_input, clock, d[1], answers1, id,
                           max_age, max_messages, token_limit)
        a2 == AddMessageTo(a1.conv, c, "assistant", response_text, clock + d[1] + d[2],
                           d[3], answers2, id + 1, max_age, max_messages, token_limit)
    IN  [conv |-> a2.conv, lost |-> a1.lost \/ a2.lost,
         recs |-> << NewRecord("user", user_input, clock, id),
                     NewRecord("assistant", response_text, clock + d[1] + d[2], id + 1) >>]

\* on_message when the fetch or the generation raises: the except branch
OnFailure(conv, c, user_input, id) == [conv |-> conv, recs |-> << >>]

\* the service's answers explored inside a turn: a count within and one over the limit
TurnAnswers == {1, TOKEN_LIMIT + 1}

\* the answer sequences the two cleanups of a turn can consume
TurnRuns(conv, c, user_input, response_text, d, id) ==
    LET log1 == AppendRecord(DefaultGet(conv, c), NewRecord("user", user_input, clock, id))
        r1   == TrimRuns(CountCap(AgeFilter(log1, clock + d[1], max_age), max_messages),
                         token_limit, TurnAnswers)
        t3   == clock + d[1] + d[2]
    IN  UNION { LET a1   == AddMessageTo(conv, c, "user", user_input, clock, d[1], x, id,
                                         max_age, max_messages, token_limit)
                    log2 == AppendRecord(DefaultGet(a1.conv, c),
                                         NewRecord("assistant", response_text, t3, id + 1))
                IN  { <<x, y>> : y \in TrimRuns(CountCap(AgeFilter(log2, t3 + d[3], max_age),
                                                         max_messages), token_limit,
                                                TurnAnswers) }
              : x \in r1 }

----------------------------------------------------------------------------
(* Bot specification: on_message coroutines interleaved at their awaits *)

\* locals of a coroutine that is not between the fetch and the reply
NoLocals == [channel |-> 0, user_input |-> << >>, discord |-> << >>, short |-> << >>,
             full |-> << >>, snap |-> {}, delivery |-> << >>, wrote |-> FALSE]

\* locals (channel .. full), and history: snap = identities in the log when
\* short was read, delivery = what channel.history delivered,
\* wrote = whether the turn has changed self.conversations so far,
\* recs = (identity, role) of the records this event appended
EmptyCtx == [loc |-> NoLocals, recs |-> << >>, outcome |-> "none"]

InitBot ==
    /\ InitCommon
    /\ max_age = MAX_AGE_MINUTES
    /\ max_messages = MAX_MESSAGES
    /\ token_limit = TOKEN_LIMIT
    /\ pc = [e \in Events |-> "idle"]
    /\ ctx = [e \in Events |-> EmptyCtx]

Tags(recs) == [i \in 1..Len(recs) |-> [id |-> recs[i].id, role |-> recs[i].role]]

\* on_message is entered: lines 117-128, up to the first await
Deliver(e, message) ==
    /\ pc[e] = "idle"
    /\ \A f \in Events : f < e => pc[f] # "idle"
    /\ LET user_input == Strip(message.text)
       IN  IF message.author = "self" \/ message.channel # TargetChannel \/ user_input = <<>>
           THEN /\ pc' = [pc EXCEPT ![e] = "done"]
                /\ ctx' = [ctx EXCEPT ![e].outcome = "ignored"]
                /\ UNCHANGED <<conversations, added, lossy>>
           ELSE IF user_input = ResetCommand
           THEN /\ conversations' = ClearConversationOf(conversations, message.channel)
                /\ added' = [added EXCEPT ![message.channel] = << >>]
                /\ lossy' = [lossy EXCEPT ![message.channel] = FALSE]
                /\ pc' = [pc EXCEPT ![e] = "replying"]
                /\ ctx' = [ctx EXCEPT ![e].outcome = "reset"]
           ELSE /\ pc' = [pc EXCEPT ![e] = "typing"]
                /\ ctx' = [ctx EXCEPT ![e].loc.channel = message.channel,
                                      ![e].loc.user_input = user_input]
                /\ UNCHANGED <<conversations, added, lossy>>
    /\ UNCHANGED <<max_age, max_messages, token_limit, channel_history, clock, nextId, last>>

\* entering the typing context raised (line 128, outside the try): the
\* exception leaves on_message, nothing is replied
TypingFails(e) ==
    /\ pc[e] = "typing"
    /\ pc' = [pc EXCEPT ![e] = "done"]
    /\ ctx' = [ctx EXCEPT ![e].loc = NoLocals, ![e].outcome = "raised"]
    /\ UNCHANGED <<storeVarsButLast, last>>

\* the typing context is entered: lines 128-138, up to the next await.
\* In the search branch, raised tells whether generate_content or response.text
\* raised (the split raises when there is no query, google_search catches its
\* own errors); the except branch then replies the error.
StartTurn(e, raised) ==
    /\ pc[e] = "typing"
    /\ IF IsSearch(ctx[e].loc.user_input)
       THEN /\ pc' = [pc EXCEPT ![e] = "replying"]
            /\ ctx' = [ctx EXCEPT ![e].loc = NoLocals,
                                  ![e].outcome = IF HasQuery(ctx[e].loc.user_input) /\ ~raised
                                                 THEN "search" ELSE "failed"]
       ELSE /\ ~raised
            /\ pc' = [pc EXCEPT ![e] = "fetching"]
            /\ ctx' = ctx
    /\ UNCHANGED <<storeVarsButLast, last>>

\* channel.history delivered: lines 138-143, up to the await of the generation
FetchReturn(e, delivery) ==
    /\ pc[e] = "fetching"
    /\ LET c == ctx[e].loc.channel
           r == OnFetched(conversations, c, ctx[e].loc.user_input, delivery, nextId)
       IN  /\ conversations' = r.conv
           /\ nextId' = nextId + Len(r.recs)
           /\ added' = [added EXCEPT ![c] = @ \o [i \in 1..Len(r.recs) |-> r.recs[i].id]]
           /\ ctx' = [ctx EXCEPT ![e].loc.discord = r.discord, ![e].loc.short = r.short,
                                 ![e].loc.full = r.full, ![e].loc.snap = r.snap,
                                 ![e].loc.delivery = delivery,
                                 ![e].loc.wrote = (r.conv # conversations),
                                 ![e].recs = @ \o Tags(r.recs)]
    /\ pc' = [pc EXCEPT ![e] = "generating"]
    /\ UNCHANGED <<max_age, max_messages, token_limit, channel_history, clock, lossy, last>>

\* the fetch or the generation raised: the except branch, up to the await of the reply
TurnFails(e) ==
    /\ pc[e] \in {"fetching", "generating"}
    /\ LET c == ctx[e].loc.channel
           r == OnFailure(conversations, c, ctx[e].loc.user_input, nextId)
       IN  /\ conversations' = r.conv
           /\ nextId' = nextId + Len(r.recs)
           /\ added' = [added EXCEPT ![c] = @ \o [i \in 1..Len(r.recs) |-> r.recs[i].id]]
           /\ ctx' = [ctx EXCEPT ![e].loc = NoLocals, ![e].outcome = "failed",
                                 ![e].recs = @ \o Tags(r.recs)]
    /\ pc' = [pc EXCEPT ![e] = "replying"]
    /\ UNCHANGED <<max_age, max_messages, token_limit, channel_history, clock, lossy, last>>

\* the backend replied: lines 143-150, up to the await of the reply
GenerateReturn(e, text, d) ==
    /\ pc[e] = "generating"
    /\ clock + d[1] + d[2] + d[3] <= MaxBotClock
    /\ \E r \in { OnGenerated(conversations, ctx[e].loc.channel, ctx[e].loc.user_input,
                                Strip(text), d, answers[1], answers[2], nextId) :
                    answers \in TurnRuns(conversations, ctx[e].loc.channel,
                                         ctx[e].loc.user_input, Strip(text), d, nextId) } :
       LET c == ctx[e].loc.channel
       IN  /\ conversations' = r.conv
           /\ nextId' = nextId + Len(r.recs)
           /\ added' = [added EXCEPT ![c] = @ \o [i \in 1..Len(r.recs) |-> r.recs[i].id]]
           /\ lossy' = [lossy EXCEPT ![c] = @ \/ r.lost]
           /\ ctx' = [ctx EXCEPT ![e].loc = NoLocals, ![e].outcome = "replied",
                                 ![e].recs = @ \o Tags(r.recs)]
    /\ clock' = clock + d[1] + d[2] + d[3]
    /\ pc' = [pc EXCEPT ![e] = "replying"]
    /\ UNCHANGED <<max_age, max_messages, token_limit, channel_history, last>>

\* the awaited message.reply / channel.send is over and the coroutine ends: it
\* returned, or it raised outside the try (the send of line 125, the reply of
\* line 156 in the except branch) and the exception leaves on_message
ReplyDone(e) ==
    /\ pc[e] = "replying"
    /\ pc' = [pc EXCEPT ![e] = "done"]
    /\ UNCHANGED <<storeVarsButLast, last, ctx>>

\* message.reply raised inside the try (lines 135, 150, 152): the except branch
\* takes the exception and awaits the reply of line 156; the store stays as the
\* turn left it, the two records of a conversational turn included
ReplyFails(e) ==
    /\ pc[e] = "replying"
    /\ ctx[e].outcome \in {"search", "replied"}
    /\ ctx' = [ctx EXCEPT ![e].outcome = "failed"]
    /\ UNCHANGED <<storeVarsButLast, last, pc>>

\* max_age passes
TickBot ==
    /\ clock + MAX_AGE_MINUTES <= MaxBotClock
    /\ clock' = clock + MAX_AGE_MINUTES
    /\ UNCHANGED <<conversations, max_age, max_messages, token_limit, channel_history, nextId, added,
                   lossy, last, botVars>>

NextBot ==
    \/ \E e \in Events, message \in InboundMessages : Deliver(e, message)
    \/ \E e \in Events : TypingFails(e)
    \/ \E e \in Events, raised \in BOOLEAN : StartTurn(e, raised)
    \/ \E e \in Events, delivery \in Deliveries : FetchReturn(e, delivery)
    \/ \E e \in Events : TurnFails(e)
    \/ \E e \in Events, text \in ResponseTexts, d \in ReadDelays : GenerateReturn(e, text, d)
    \/ \E e \in Events : ReplyDone(e)
    \/ \E e \in Events : ReplyFails(e)
    \/ TickBot

SpecBot == InitBot /\ [][NextBot]_vars

----------------------------------------------------------------------------
(* Fetch specification: get_contextual_history on what the platform delivers *)

\* messages that may be posted in the channel
PlatformMessages ==
    { [author |-> "self",     text |-> <<"o", "k">>],
      [author |-> "alice",    text |-> <<"h", "i">>],
      [author |-> "alice",    text |-> <<" ">>],
      [author |-> "otherbot", text |-> <<"y", "o", " ">>] }

\* channel.history(limit=limit): the `limit` most recent messages, newest first
ChannelHistory(posted, limit) == SubSeq(posted, 1, Min(limit, Len(posted)))

InitFetch ==
    /\ InitCommon
    /\ max_age = MAX_AGE_MINUTES
    /\ max_messages = MAX_MESSAGES
    /\ token_limit = TOKEN_LIMIT
    /\ pc = << >>
    /\ ctx = << >>

\* a message is posted in the channel
Post(message) ==
    /\ Len(channel_history) < MaxPosts
    /\ channel_history' = <<message>> \o channel_history
    /\ last' = [op |-> "post", ch |-> TargetChannel, ret |-> None]
    /\ UNCHANGED <<conversations, max_age, max_messages, token_limit, clock, nextId,
                   added, lossy, botVars>>

\* await get_contextual_history(message.channel, limit=limit)
FetchHistory(limit) ==
    /\ LET delivery == ChannelHistory(channel_history, limit)
       IN  last' = [op |-> "fetch", ch |-> TargetChannel,
                    ret |-> [delivery |-> delivery,
                             history  |-> GetContextualHistory(delivery)]]
    /\ UNCHANGED <<storeVarsButLast, botVars>>

NextFetch ==
    \/ \E message \in PlatformMessages : Post(message)
    \/ FetchHistory(HISTORY_LIMIT)

SpecFetch == InitFetch /\ [][NextFetch]_vars

----------------------------------------------------------------------------
(* Properties *)

Suffix(seq, n) == SubSeq(seq, Len(seq) - n + 1, Len(seq))

IdSeq(log) == [i \in 1..Len(log) |-> log[i].id]

\* the log of a channel after the step
LogNext(c) == DefaultGet(conversations', c)

\* the {role, parts} projection of a log, written out
Projection(log) == [i \in 1..Len(log) |-> [role |-> log[i].role, parts |-> <<log[i].content>>]]

\* number of characters of a list of texts, counted position by position
TotalChars(texts) ==
    Cardinality(UNION { { <<i, j>> : j \in 1..Len(texts[i]) } : i \in 1..Len(texts) })

\* C1 (as claimed): while neither the age pass nor the token pass has removed a
\* record of a channel, its log is exactly the last min(k, max_messages) of the k
\* records added to it, in insertion order; and right after add_message returns
\* the log is no longer than max_messages.
C1_CountCap ==
    /\ \A c \in Channels :
          ~lossy[c] => IdSeq(Log(c)) = Suffix(added[c], Min(Len(added[c]), max_messages))
    /\ last.op = "add" => Len(Log(last.ch)) <= max_messages

\* the answers a later call of the estimator may give on the same texts: the
\* count the service gave before if it gave one, any count if it raised, or an
\* exception
LaterAnswers(answer) == IF answer = Fail THEN ServiceAnswers ELSE {answer, Fail}

\* C2 (as claimed): right after add_message(c, ...) returns, the estimate of c's
\* log is at most token_limit unless the log is empty, whether the estimator
\* then gives the precise count or falls back to the heuristic, whichever of the
\* two it gave during the cleanup (stated for max_messages >= 1, where the count
\* cap holds).
C2_TokenCapAnyAnswer ==
    (last.op = "add" /\ Log(last.ch) # <<>> /\ max_messages >= 1) =>
        \A a \in LaterAnswers(last.ret.answer) :
            CalculateTotalTokens(Log(last.ch), a).value <= token_limit

\* C2 (amended): right after add_message(c, ...) returns, either c's log is empty
\* or the estimate of the returned log under the answer the service gave to the
\* cleanup's last call is at most token_limit, and that is the estimate the
\* cleanup's last check used.
C2_TokenCapLastCheck ==
    (last.op = "add" /\ Log(last.ch) # <<>>) =>
        /\ last.ret.answer \in ServiceAnswers
        /\ CalculateTotalTokens(Log(last.ch), last.ret.answer).value = last.ret.est
        /\ last.ret.est <= token_limit

\* C2 witness: an add_message whose token pass removed a record and left a non-empty log
C2_Witness ==
    last.op = "add" /\ last.ret.popped >= 1 /\ Log(last.ch) # <<>>

\* C3: right after add_message on c returns, every record of c's log has
\* now - timestamp <= max_age, now being the clock the cleanup read.
C3_AgeCap ==
    last.op = "add" =>
        \A i \in 1..Len(Log(last.ch)) : clock - Log(last.ch)[i].timestamp <= max_age

\* C3 witness: an add_message whose age pass removed a record while a newer one stayed
C3_Witness ==
    last.op = "add" /\ last.ret.aged /\ Log(last.ch) # <<>>

C4Step ==
    /\ (last'.op = "clear" /\ last'.ch # None) =>
          /\ LogNext(last'.ch) = <<>>
          /\ \A d \in Channels \ {last'.ch} :
                /\ (d \in DOMAIN conversations') <=> (d \in DOMAIN conversations)
                /\ LogNext(d) = Log(d)
          /\ last'.ch \notin DOMAIN conversations => conversations' = conversations
    /\ (last'.op = "clear" /\ last'.ch = None) =>
          \A d \in Channels : LogNext(d) = <<>>
    /\ (last'.op = "add" /\ last' # last /\ Log(last'.ch) = <<>>) =>
          LET new == [role |-> RoleForGemini(last'.ret.role), content |-> last'.ret.content,
                      timestamp |-> clock, id |-> nextId]
          IN  /\ LogNext(last'.ch) \in { <<>>, <<new>> }
              /\ (~last'.ret.aged /\ last'.ret.popped = 0) => LogNext(last'.ch) = <<new>>

\* C4: clear_conversation(c) leaves c's log empty and every other channel's log
\* (and whether it has one) as it was, and changes nothing when c has no log;
\* clear_conversation() leaves every channel's log empty; add_message on an empty
\* or absent log leaves the new record alone in it unless a pass evicts it.
C4_ResetScope == [][C4Step]_vars

\* C4 witness: clear_conversation(c) removed records of c while another channel held some
C4_Witness ==
    /\ last.op = "clear" /\ last.ch \in Channels /\ last.ret > 0
    /\ \E d \in Channels \ {last.ch} : Log(d) # <<>>

\* C5: _calculate_total_tokens returns a natural number: 0 without a service call
\* for an empty list; for a non-empty list, after one service call, the service's
\* count when the call succeeded and the number of characters of the texts when
\* it raised.
C5_EstimatorFallback ==
    last.op = "estimate" =>
        LET texts == ContentsOf(Log(last.ch))
        IN  /\ last.ret.value \in Nat
            /\ texts = <<>> => (last.ret.value = 0 /\ last.ret.calls = 0)
            /\ texts # <<>> =>
                  /\ last.ret.calls = 1
                  /\ last.ret.value = IF last.ret.answer = Fail THEN TotalChars(texts)
                                      ELSE last.ret.answer

\* C5 witness: the service raised on ["ab", "cde"] and 5 was returned
C5_Witness ==
    /\ last.op = "estimate" /\ last.ret.answer = Fail
    /\ ContentsOf(Log(last.ch)) = << <<"a", "b">>, <<"c", "d", "e">> >>
    /\ last.ret.value = 5

C6Step ==
    /\ \A c \in Channels :
          /\ \A i, j \in 1..Len(LogNext(c)) : i < j => LogNext(c)[i].id < LogNext(c)[j].id
          /\ \A i \in 1..Len(LogNext(c)) :
                \/ \E k \in 1..Len(Log(c)) : Log(c)[k] = LogNext(c)[i]
                \/ /\ last'.op = "add" /\ last'.ch = c
                   /\ LogNext(c)[i] = [role |-> RoleForGemini(last'.ret.role),
                                      content |-> last'.ret.content,
                                      timestamp |-> clock, id |-> nextId]
    /\ last'.op = "get" => last'.ret = Projection(Log(last'.ch))

\* C6: identities being given in append order, every log lists its records by
\* increasing identity; a step leaves in a log only records that were in it,
\* unchanged, or the record just added; get_formatted_history returns the log's
\* records in the log's order with their role and content.
C6_OrderPreserved == [][C6Step]_vars

\* C6 witness: get_formatted_history returned two different records
C6_Witness ==
    last.op = "get" /\ Len(last.ret) = 2 /\ last.ret[1] # last.ret[2]

C7Step ==
    \A e \in Events :
        (pc[e] = "fetching" /\ pc'[e] = "generating") =>
            LET short == Projection(Log(ctx[e].loc.channel))
                loc   == ctx'[e].loc
            IN  /\ loc.short = short
                /\ Len(loc.full) = Len(short) + Len(loc.discord)
                /\ \A i \in 1..Len(short) : loc.full[i] = short[i]
                /\ \A j \in 1..Len(loc.discord) : loc.full[Len(short) + j] = loc.discord[j]

\* C7: the history given to start_chat is the store's history of the channel as
\* it is when the fetch returns, followed by the fetched history, element by
\* element, nothing removed, merged or moved.
C7_Concatenation == [][C7Step]_vars

\* C7 witness: a context in which an entry of the short-term history occurs
\* again in the fetched segment
C7_Witness ==
    \E e \in Events :
        /\ pc[e] = "generating"
        /\ \E i \in 1..Len(ctx[e].loc.short), j \in 1..Len(ctx[e].loc.discord) :
              /\ ctx[e].loc.short[i] = ctx[e].loc.discord[j]
              /\ ctx[e].loc.full[i] = ctx[e].loc.full[Len(ctx[e].loc.short) + j]

C8LogsStep ==
    \A e \in Events :
        /\ (pc[e] \in {"typing", "fetching", "generating"} /\ pc'[e] # pc[e]) =>
              IF ctx'[e].outcome = "replied"
              THEN /\ ctx[e].recs = << >>
                   /\ ctx'[e].recs = << [id |-> nextId, role |-> "user"],
                                        [id |-> nextId + 1, role |-> "model"] >>
                   /\ nextId' = nextId + 2
                   /\ added'[ctx[e].loc.channel] =
                         added[ctx[e].loc.channel] \o <<nextId, nextId + 1>>
              ELSE /\ ctx'[e].recs = << >>
                   /\ nextId' = nextId
                   /\ \A c \in Channels : LogNext(c) = Log(c)
        /\ pc'[e] = pc[e] => ctx'[e].recs = ctx[e].recs

\* C8 (the appends and the logs' contents): a step of a turn's handler either
\* appends the user record and then the assistant record, next to each other,
\* nothing of another event between them (the step on the backend's reply), or
\* appends nothing and leaves the contents of every log as they were (every
\* other step, the failure of the fetch or of the generation included); what an
\* event has appended changes in no step of another event.
C8_AppendsAllOrNothing == [][C8LogsStep]_vars

C8Step ==
    \A e \in Events :
        (pc[e] \in {"typing", "fetching", "generating"} /\ ctx'[e].outcome = "failed") =>
            /\ ctx'[e].recs = << >>
            /\ conversations' = conversations
            /\ ~ctx[e].loc.wrote

\* C8 (as claimed): every step of a turn's handler appends both records or none
\* (C8LogsStep), and when the fetch or the generation of a turn fails, the
\* turn has appended nothing and no step of it has changed the store, the set
\* of channels that have a log included.
C8_AllOrNothing == [][C8LogsStep /\ C8Step]_vars

\* C8 witness: one turn has failed and another has appended its two records
C8_Witness ==
    \E e, f \in Events :
        /\ ctx[e].outcome = "failed" /\ ctx[e].recs = << >>
        /\ ctx[f].outcome = "replied" /\ Len(ctx[f].recs) = 2
        /\ Log(TargetChannel) # <<>>

\* C9: whenever two events of one channel are both waiting for the backend,
\* neither's snapshot of the store holds a record appended by the other.
C9_StaleSnapshots ==
    \A e, f \in Events :
        (e # f /\ pc[e] = "generating" /\ pc[f] = "generating"
           /\ ctx[e].loc.channel = ctx[f].loc.channel) =>
            ctx[e].loc.snap \cap { ctx[f].recs[i].id : i \in 1..Len(ctx[f].recs) } = {}

\* C9 witness: two events of one channel, both dispatched, both past their
\* snapshot, neither complete
C9_Witness ==
    \E e, f \in Events :
        /\ e # f /\ pc[e] = "generating" /\ pc[f] = "generating"
        /\ ctx[e].loc.channel = ctx[f].loc.channel
        /\ ctx[e].recs = << >> /\ ctx[f].recs = << >>

\* C10 (as claimed): get_formatted_history(c) leaves the mapping as it was, keys
\* and logs, and returns the empty list for a channel that has no log.
C10_GetHistoryReadOnly ==
    [][last'.op = "get" =>
          /\ conversations' = conversations
          /\ last'.ch \notin DOMAIN conversations => last'.ret = << >>]_vars

C11Step ==
    \A e \in Events :
        /\ (pc[e] = "fetching" /\ pc'[e] = "generating") =>
              /\ ctx[e].recs # << >>
              /\ ctx'[e].loc.full =
                    Assemble(Projection(LogNext(ctx[e].loc.channel)), ctx'[e].loc.discord)
        /\ (pc[e] = "generating" /\ pc'[e] = "generating") => ctx'[e].loc = ctx[e].loc
        /\ (pc[e] = "generating" /\ ctx'[e].outcome = "replied") =>
              ctx'[e].recs = ctx[e].recs \o << [id |-> nextId, role |-> "user"],
                                                [id |-> nextId + 1, role |-> "model"] >>

\* C11 (as claimed): in every turn, add_message (with its cleanup) has been called
\* on the channel by the turn's handler before the handler builds the context;
\* the context built is the store's history followed by the fetched history and
\* stays the one given to the generation call; the user and assistant records
\* are appended on the reply, not before.
C11_TurnControlFlow == [][C11Step]_vars

\* the record an add_message step appends, read from the step
AddedRecord ==
    [role |-> RoleForGemini(last'.ret.role), content |-> last'.ret.content,
     timestamp |-> clock, id |-> nextId]

\* the passes as the eviction policy states them
\* age filter: the records no older than maxAge, in order
EvictAge(log, now, maxAge) ==
    LET keep == { i \in 1..Len(log) : now - log[i].timestamp <= maxAge }
        Rank(i) == Cardinality({ k \in keep : k <= i })
    IN  [n \in 1..Cardinality(keep) |-> log[CHOOSE i \in keep : Rank(i) = n]]

\* count cap: the most recent maxMessages records when there are more
EvictCount(log, maxMessages) == Suffix(log, Min(Len(log), maxMessages))

\* token-budget trim: the longest suffix reached by removing oldest records one
\* at a time whose estimate, under the answer given to that check, is within limit
EvictTokens(log, answers, limit) ==
    LET AnswerTo(j) == IF j + 1 <= Len(answers) THEN answers[j + 1] ELSE Fail
        Within(j) == CalculateTotalTokens(Suffix(log, Len(log) - j), AnswerTo(j)).value <= limit
        Stops == { j \in 0..Len(log) : j = Len(log) \/ Within(j) }
    IN  Suffix(log, Len(log) - (CHOOSE j \in Stops : \A k \in Stops : j <= k))

C12Step ==
    (last'.op = "add" /\ nextId' # nextId) =>
        LogNext(last'.ch) =
            EvictTokens(EvictCount(EvictAge(Append(Log(last'.ch), AddedRecord),
                                            clock', max_age),
                                   max_messages),
                        last'.ret.answers, token_limit)

\* C12 (as claimed): the log left by the cleanup that add_message runs is the
\* token-budget trim of the count cap of the age filter of the log with the new
\* record, for every log, clock value and sequence of estimator answers.
C12_ThreePasses == [][C12Step]_vars

\* C12 restricted to a count cap of at least one record
C12_ThreePassesPositiveCap == [][max_messages >= 1 => C12Step]_vars

C13Step ==
    (last'.op = "add" /\ nextId' # nextId) =>
        LET iterations == last'.ret.popped
            calls      == Len(last'.ret.answers)
            left       == LogNext(last'.ch)
        IN  /\ iterations \in 0..(Len(Log(last'.ch)) + 1)
            /\ calls = iterations + (IF left = <<>> THEN 0 ELSE 1)
            /\ \A j \in 1..iterations :
                  last'.ret.answers[j] = Fail \/ last'.ret.answers[j] > token_limit
            /\ left = <<>> \/ last'.ret.est <= token_limit
            /\ Len(left) <= Len(Log(last'.ch)) + 1 - iterations
            /\ left = Suffix(Append(Log(last'.ch), AddedRecord), Len(left))

\* C13: the token loop of a cleanup ends: it removes one record, the oldest, per
\* iteration, each iteration after one estimator call that answered over the
\* limit (or raised); it makes no more iterations than the log had records, and
\* it ends with an empty log or with an estimate within token_limit, whatever
\* the estimator answers (always over the limit and always raising included).
C13_TrimTerminates == [][C13Step]_vars

\* C13 witness: the estimator answered over the limit on every call, and the
\* loop ended after two iterations with the log empty
C13_Witness ==
    /\ last.op = "add" /\ last.ret.popped = 2 /\ Log(last.ch) = <<>>
    /\ last.ret.answers = <<TOKEN_LIMIT + 1, TOKEN_LIMIT + 1>>

C14Step ==
    /\ (last'.op = "add" /\ nextId' # nextId) =>
          LogNext(last'.ch) = Suffix(Append(Log(last'.ch), AddedRecord), Len(LogNext(last'.ch)))
    /\ \A c \in Channels :
          \A i, j \in 1..Len(added'[c]) :
              (i < j /\ added'[c][i] \in IdsOf(LogNext(c))) => added'[c][j] \in IdsOf(LogNext(c))

\* C14: the log an add_message leaves is a contiguous suffix of the log as it was
\* before the cleanup (the old log with the new record appended); and in every
\* state, if a record of a channel is in its log then every record appended to
\* that channel after it is in the log too.
C14_RecencyPreferred == [][C14Step]_vars

\* C14 witness: the count cap removed the oldest record and the newer one stayed
C14_Witness ==
    /\ last.op = "add" /\ ~last.ret.aged /\ last.ret.popped = 0
    /\ Len(added[last.ch]) = 2 /\ IdSeq(Log(last.ch)) = <<added[last.ch][2]>>

\* C15: in every state and for every channel, the timestamps of the log's records
\* do not decrease from the first record to the last.
C15_TimestampsOrdered ==
    \A c \in Channels :
        \A i, j \in 1..Len(Log(c)) : i < j => Log(c)[i].timestamp <= Log(c)[j].timestamp

\* C15 witness: a log holding two records stamped at different clock values
C15_Witness ==
    \E c \in Channels :
        Len(Log(c)) = 2 /\ Log(c)[1].timestamp < Log(c)[2].timestamp

\* C16: for every delivery of at most HISTORY_LIMIT messages, newest first, the
\* fetched segment has at most HISTORY_LIMIT entries, none of them with an empty
\* cleaned content, and lists the delivered messages whose cleaned content is not
\* empty, each once with its cleaned content, in the reverse of the delivery order.
C16_FetchedSegmentShape ==
    last.op = "fetch" =>
        LET delivery == last.ret.delivery
            history  == last.ret.history
            kept     == { i \in 1..Len(delivery) : Strip(delivery[i].text) # <<>> }
            \* the delivered message behind the n-th entry: n-1 kept messages are older
            Origin(n) == CHOOSE i \in kept : Cardinality({ k \in kept : k > i }) = n - 1
        IN  /\ Len(delivery) <= HISTORY_LIMIT
            /\ Len(history) <= HISTORY_LIMIT
            /\ Len(history) = Cardinality(kept)
            /\ \A n \in 1..Len(history) :
                  /\ history[n].parts # << <<>> >>
                  /\ history[n].parts = << Strip(delivery[Origin(n)].text) >>

\* C16 witness: the channel holds more than HISTORY_LIMIT messages; HISTORY_LIMIT
\* were delivered, one of them blank, and the segment lists the others oldest first
C16_Witness ==
    /\ last.op = "fetch" /\ Len(channel_history) > HISTORY_LIMIT
    /\ Len(last.ret.delivery) = HISTORY_LIMIT
    /\ Len(last.ret.history) = HISTORY_LIMIT - 1
    /\ last.ret.history[1].parts # last.ret.history[Len(last.ret.history)].parts

C17Step ==
    /\ \A c \in Channels :
          \A i \in 1..Len(LogNext(c)) : LogNext(c)[i].role \in {"user", "model"}
    /\ \A e \in Events :
          /\ (pc[e] = "fetching" /\ pc'[e] = "generating") =>
                LET loc  == ctx'[e].loc
                    kept == SelectSeq(loc.delivery, LAMBDA m : Strip(m.text) # <<>>)
                IN  /\ \A i \in 1..Len(loc.full) : loc.full[i].role \in {"user", "model"}
                    /\ Len(loc.discord) = Len(kept)
                    /\ \A i \in 1..Len(loc.discord) :
                          loc.discord[i].role =
                              IF kept[Len(kept) + 1 - i].author = "self" THEN "model" ELSE "user"
          /\ (pc[e] = "generating" /\ ctx'[e].outcome = "replied") =>
                \A i \in 1..Len(LogNext(ctx[e].loc.channel)) :
                    LET rec == LogNext(ctx[e].loc.channel)[i]
                    IN  /\ rec.id = nextId => rec.role = "user"
                        /\ rec.id = nextId + 1 => rec.role = "model"

\* C17 (as claimed): every entry of a context and every stored record carries the
\* role "user" or "model"; the record add_message stores for the caller's role
\* "assistant" is "model" and the one for "user" is "user"; a fetched message is
\* "model" if its author is the bot itself and "user" for every other author.
C17_RoleMapping == [][C17Step]_vars

\* C18 (as claimed): right after add_message(c, role, content) returns, c's log is
\* empty or its last record is the record just added, and the record just added
\* is absent only when the token loop emptied the log.
C18_NewestSurvivesOrTrimmed ==
    last.op = "add" =>
        /\ Log(last.ch) = <<>> \/ Log(last.ch)[Len(Log(last.ch))].id = last.ret.id
        /\ last.ret.id \notin IdsOf(Log(last.ch)) =>
              (Log(last.ch) = <<>> /\ last.ret.popped >= 1)

C18Step ==
    (last'.op = "add" /\ nextId' # nextId) =>
        LET left == LogNext(last'.ch)
        IN  /\ left = <<>> \/ left[Len(left)] = AddedRecord
            /\ nextId \notin IdsOf(left) =>
                  /\ left = <<>>
                  /\ \/ last'.ret.popped >= 1 /\ clock' - clock <= max_age
                     \/ last'.ret.popped = 0 /\ last'.ret.aged /\ clock' - clock > max_age

\* C18 (amended): right after add_message(c, role, content) returns, c's log is
\* empty or its last record is the record just added; the record just added is
\* absent only when the log is empty, emptied either by the token loop or by the
\* age filter, the latter when the cleanup reads the clock more than max_age
\* after the record was stamped.
C18_NewestSurvivesOrEmptied == [][C18Step]_vars

\* C18 witness: the age filter removed the record just added, the token loop
\* removed nothing
C18_Witness ==
    /\ last.op = "add" /\ Log(last.ch) = <<>>
    /\ last.ret.aged /\ last.ret.popped = 0

\* C19 (as claimed): events being received in the order of their numbers, once
\* the reset of an event has been processed the channel's log holds no record
\* appended by a turn whose event was received before that reset.
C19_ResetNotUndone ==
    \A e, f \in Events :
        (e < f /\ ctx[f].outcome = "reset") =>
            IdsOf(Log(TargetChannel)) \cap { ctx[e].recs[i].id : i \in 1..Len(ctx[e].recs) } = {}

C19Step ==
    /\ \A f \in Events :
          (ctx[f].outcome # "reset" /\ ctx'[f].outcome = "reset") =>
              LogNext(TargetChannel) = <<>>
    /\ \A c \in Channels :
          IdsOf(LogNext(c)) \subseteq { added'[c][i] : i \in 1..Len(added'[c]) }
    /\ \A e \in Events :
          (pc[e] = "generating" /\ ctx'[e].outcome = "replied") =>
              IdSeq(LogNext(ctx[e].loc.channel)) =
                  Suffix(IdSeq(Log(ctx[e].loc.channel)) \o <<nextId, nextId + 1>>,
                         Len(LogNext(ctx[e].loc.channel)))

\* C19 (amended): the step that processes a reset of channel c leaves c's log
\* empty, and from then on the log holds only records appended after that reset;
\* a turn that was suspended when the reset ran does append its two records when
\* the backend replies, after whatever the log holds then (the cleanups then
\* keeping a suffix), so records of a turn whose event was received before the
\* reset can be in the log after it.
C19_OnlyAppendedAfterReset == [][C19Step]_vars

\* C19 witness: a reset has been processed and the log holds the two records of a
\* turn whose event was received before it
C19_Witness ==
    \E e, f \in Events :
        /\ e < f /\ ctx[f].outcome = "reset" /\ Len(ctx[e].recs) = 2
        /\ IdSeq(Log(TargetChannel)) = <<ctx[e].recs[1].id, ctx[e].recs[2].id>>

\* C20 (as claimed): no handler being between its two add_message calls in any
\* state (there is no await between them), every channel's log has even length
\* and alternates "user", "model", starting with "user".
C20_TurnPairsWhole ==
    \A c \in Channels :
        /\ Len(Log(c)) % 2 = 0
        /\ \A i \in 1..Len(Log(c)) :
              Log(c)[i].role = IF i % 2 = 1 THEN "user" ELSE "model"

\* C20 (amended): in every state every channel's log is a suffix of a sequence of
\* complete turns: the roles of neighbouring records differ and the last record,
\* if there is one, is "model"; the first record may be a "model" record whose
\* "user" half an eviction pass removed.
C20_SuffixOfTurns ==
    \A c \in Channels :
        /\ \A i \in 1..(Len(Log(c)) - 1) : Log(c)[i].role # Log(c)[i + 1].role
        /\ Log(c) # <<>> => Log(c)[Len(Log(c))].role = "model"

\* C20 witness: a log that begins with a "model" record, its "user" half evicted
C20_Witness ==
    \E e \in Events :
        /\ Len(ctx[e].recs) = 2 /\ Log(TargetChannel) # <<>>
        /\ Log(TargetChannel)[1].id = ctx[e].recs[2].id
        /\ Log(TargetChannel)[1].role = "model"

====
